---- MODULE Spec2Model ----
(***************************************************************************)
(* A model of augmentation_utils: the fractal stretch / dropout transforms *)
(* of spec_augmentations.py, DropStripes, the Augmentation wrapper and the *)
(* ComposeAugmentation scheduler of augmentations.py.                      *)
(*                                                                         *)
(* Arrays are records [nd, h, w, v]: nd is the number of dimensions, (h,w) *)
(* the shape and v the rows.  Element values are integers on a grid twice  *)
(* as fine as single precision: the even integers are the values a float32 *)
(* holds, an odd integer is a float64 value half way between two of them.  *)
(* Chunk sizes and drop counts are sizes: naturals (or None when unset).   *)
(***************************************************************************)
EXTENDS Integers, Sequences, FiniteSets, TLC

(* ------------------------------ bounds -------------------------------- *)
MaxCalls == 2
MaxChunks == 3
MaxSize == 3
MaxDrop == 2
MaxVal == 2
MaxAugs == 2
MaxPool == 2
MaxDropWidth == 2
MaxStripes == 1

(* ----------------------- constants of the program ---------------------- *)
\* int(x * 0.1): the 10% default of a chunk-size bound
TenthDiv == 10
\* int(x * 0.01): the 1% default of a chunk-size bound
HundredthDiv == 100

\* Python's None, apart from every size and count
None == 0 - 1
NoArr == [nd |-> 0, h |-> 0, w |-> 0, v |-> <<>>]

Min(a, b) == IF a < b THEN a ELSE b
Max(a, b) == IF a > b THEN a ELSE b

RECURSIVE SumSeq(_)
SumSeq(s) == IF s = <<>> THEN 0 ELSE s[1] + SumSeq(Tail(s))

SeqsUpTo(S, n) == UNION {[1..k -> S] : k \in 0..n}

(* ------------------------------ arrays -------------------------------- *)
Arr(h, w, v) == [nd |-> 2, h |-> h, w |-> w, v |-> v]

\* every h x w array over the values S
ArraysOf(h, w, S) == {Arr(h, w, v) : v \in [1..h -> [1..w -> S]]}

\* an array of h rows that repeats the rows of a
TileRows(a, h) == Arr(h, a.w, [i \in 1..h |-> a.v[((i - 1) % a.h) + 1]])

\* data.min()
ArrMin(a) ==
  LET S == {a.v[i][j] : i \in 1..a.h, j \in 1..a.w}
  IN  CHOOSE m \in S : \A x \in S : m <= x

\* Python's normalisation of one bound of a slice over an axis of length n
SliceIndex(i, n) == IF i < 0 THEN Max(i + n, 0) ELSE Min(i, n)

\* data[:, lo:hi]
ColSlice(a, lo, hi) ==
  LET s == SliceIndex(lo, a.w)
      e == SliceIndex(hi, a.w)
      n == Max(e - s, 0)
  IN  Arr(a.h, n, [i \in 1..a.h |-> [j \in 1..n |-> a.v[i][s + j]]])

\* data[lo:hi]
RowSlice(a, lo, hi) ==
  LET s == SliceIndex(lo, a.h)
      e == SliceIndex(hi, a.h)
      n == Max(e - s, 0)
  IN  Arr(n, a.w, [i \in 1..n |-> a.v[s + i]])

\* np.float32 of one value: even values are kept, an odd value is a tie and
\* goes to the neighbour with the even significand (round half to even)
Float32(x) == IF x % 2 = 0 THEN x ELSE IF (x + 1) % 4 = 0 THEN x + 1 ELSE x - 1

\* np.float32 of an array
Float32Arr(a) ==
  [a EXCEPT !.v = [i \in 1..a.h |-> [j \in 1..a.w |-> Float32(a.v[i][j])]]]

\* np.concatenate(chunks, axis=1); NoArr stands for numpy's ValueError
RECURSIVE ConcatCols(_)
ConcatCols(cs) ==
  IF Len(cs) = 0 THEN NoArr
  ELSE IF Len(cs) = 1 THEN (IF cs[1].nd = 2 THEN cs[1] ELSE NoArr)
  ELSE LET rest == ConcatCols(Tail(cs))
           c == cs[1]
       IN  IF rest = NoArr \/ c.nd # 2 \/ c.h # rest.h THEN NoArr
           ELSE Arr(c.h, c.w + rest.w, [i \in 1..c.h |-> c.v[i] \o rest.v[i]])

\* np.concatenate(chunks, axis=0); NoArr stands for numpy's ValueError
RECURSIVE ConcatRows(_)
ConcatRows(cs) ==
  IF Len(cs) = 0 THEN NoArr
  ELSE IF Len(cs) = 1 THEN (IF cs[1].nd = 2 THEN cs[1] ELSE NoArr)
  ELSE LET rest == ConcatRows(Tail(cs))
           c == cs[1]
       IN  IF rest = NoArr \/ c.nd # 2 \/ c.w # rest.w THEN NoArr
           ELSE Arr(c.h + rest.h, c.w, c.v \o rest.v)

\* a fill with zeros in place of the minimum
VoidZeros(chunk, mini) ==
  IF chunk.h = 0 THEN [nd |-> 1, h |-> 0, w |-> 0, v |-> <<>>]
  ELSE Arr(chunk.h, chunk.w, [i \in 1..chunk.h |-> [j \in 1..chunk.w |-> 0]])

\* list(np.ones(chunk.shape) * mini) as np.concatenate reads it back: the list
\* of the rows; the list of no rows is a 1-D empty array
Void(chunk, mini) ==
  IF chunk.h = 0 THEN [nd |-> 1, h |-> 0, w |-> 0, v |-> <<>>]
  ELSE Arr(chunk.h, chunk.w, [i \in 1..chunk.h |-> [j \in 1..chunk.w |-> mini]])

(* ------------------------- fractal transforms ------------------------- *)
VARIABLES
  kind,              \* the class of the fractal transform instance
  min_chunk_size,    \* self.min_chunk_size (None until set)
  max_chunk_size,    \* self.max_chunk_size (None until set)
  min_chunk,         \* self.min_chunk (dropout only)
  max_chunk,         \* self.max_chunk (dropout only)
  calls,             \* number of apply_helper calls made on the instance
  data,              \* the argument of the latest apply_helper call
  status,            \* how the latest call ended
  result,            \* the array the latest call returned
  chunk_width,       \* the local chunk_width / chunks_width of the latest call
  valid_mask,        \* the local valid_mask of the latest call (dropout)
  nb_chunk_to_drop,  \* the local nb_chunk_to_drop of the latest call (dropout)
  stretched,         \* per chunk: the width it was resized to, or None (stretch)
  first              \* the first call: its array's shape, the bounds it found
                     \* on the instance and the bounds it left

fvars == <<kind, min_chunk_size, max_chunk_size, min_chunk, max_chunk, calls,
           data, status, result, chunk_width, valid_mask, nb_chunk_to_drop,
           stretched, first>>

DropoutKinds == {"FractalTimeDropout", "FractalFrecDropout"}
StretchKinds == {"FractalTimeStretch", "FractalFreqStretch"}
TimeKinds == {"FractalTimeDropout", "FractalTimeStretch"}
Kinds == DropoutKinds \cup StretchKinds

Vals == 1..MaxVal
Shapes == {<<1, 1>>, <<1, 2>>, <<1, 3>>, <<2, 1>>, <<2, 2>>, <<3, 1>>}
\* shapes at which a 10% default is not 0
TallShapes == {<<10, 1>>, <<20, 1>>, <<20, 2>>}
WideShapes == {<<1, 10>>, <<1, 20>>}
SmallArrays == UNION {ArraysOf(s[1], s[2], Vals) : s \in Shapes}
TallArrays == UNION {{TileRows(a, s[1]) : a \in ArraysOf(1, s[2], Vals)} : s \in TallShapes}
\* one array of each shape
Ramp(h, w) == Arr(h, w, [i \in 1..h |-> [j \in 1..w |-> ((i + j) % MaxVal) + 1]])
ShapeInputs == {Ramp(s[1], s[2]) : s \in Shapes \cup TallShapes \cup WideShapes}
\* the arrays one apply_helper call is studied on: every small array and the
\* tall ones for a dropout; one array of each shape for a stretch, whose
\* values are not modelled
Inputs(k) == IF k \in DropoutKinds THEN SmallArrays \cup TallArrays ELSE ShapeInputs

SizeOpt == {None} \cup 0..MaxSize
\* rate = (0.8, 1.2): the ends and the middle of the interval, in percent
Rates == {80, 100, 120}

\* the axis the transform partitions
AxisLen(k, d) == IF k \in TimeKinds THEN d.w ELSE d.h

\* the value a bound left unset takes from the array's shape
DefaultMinSize(k, d) ==
  CASE k = "FractalTimeStretch" -> d.w \div TenthDiv
    [] k = "FractalFreqStretch" -> d.h \div HundredthDiv
    [] k = "FractalTimeDropout" -> d.h \div HundredthDiv
    [] k = "FractalFrecDropout" -> d.h \div TenthDiv

DefaultMaxSize(k, d) ==
  CASE k = "FractalTimeStretch" -> d.w \div TenthDiv
    [] k = "FractalFreqStretch" -> d.h \div TenthDiv
    [] k = "FractalTimeDropout" -> d.h \div TenthDiv
    [] k = "FractalFrecDropout" -> d.h \div TenthDiv

\* a bound that is derived again at every call
MemoRecompute(x, derived) == derived

\* x = derived if x is None else x
Memo(x, derived) == IF x = None THEN derived ELSE x

\* the bounds the instance holds once the head of apply_helper has run
ChunkBounds(k, mn, mx, d) ==
  LET lo == Memo(mn, DefaultMinSize(k, d))
      hi == Memo(mx, DefaultMaxSize(k, d))
  IN  IF k \in DropoutKinds /\ lo > hi THEN <<hi, lo>> ELSE <<lo, hi>>

\* the widths the partition loop can draw before it stops: each in [lo, hi),
\* the sum short of L before every draw and at least L after the last
IsRun(ws, L, lo, hi) ==
  /\ Len(ws) >= 1
  /\ \A i \in 1..Len(ws) : ws[i] >= lo /\ ws[i] < hi
  /\ \A i \in 1..Len(ws) : SumSeq(SubSeq(ws, 1, i - 1)) < L
  /\ SumSeq(ws) >= L

Runs(L, lo, hi) ==
  {ws \in SeqsUpTo(lo..(hi - 1), MaxChunks) : IsRun(ws, L, lo, hi)}

\* a slice that takes the column at its end too
TimeChunkInclusive(d, current_index, width) ==
  ColSlice(d, current_index, current_index + width + 1)

\* data[:, current_index:current_index+width]
TimeChunk(d, current_index, width) == ColSlice(d, current_index, current_index + width)

\* data[current_index:current_index + width :]
FreqChunk(d, current_index, width) == RowSlice(d, current_index, current_index + width)

\* the local list chunks
Chunks(k, d, ws) ==
  [i \in 1..Len(ws) |->
     LET current_index == SumSeq(SubSeq(ws, 1, i - 1))
     IN  IF k \in TimeKinds THEN TimeChunk(d, current_index, ws[i])
         ELSE FreqChunk(d, current_index, ws[i])]

Out(st, res, cw, mask, nb, str) ==
  [status |-> st, result |-> res, chunk_width |-> cw, valid_mask |-> mask,
   nb_chunk_to_drop |-> nb, stretched |-> str]

\* np.random.choice(range(n), size=k): k indices, each any of the n
Choice(n, k) == [1..k -> 0..(n - 1)]

\* valid_mask = np.ones(n); valid_mask[idx] = 0
ValidMask(n, idx) ==
  [i \in 1..n |-> IF \E j \in DOMAIN idx : idx[j] = i - 1 THEN 0 ELSE 1]

\* the list reconstructed_S: a kept chunk, or the fill of its shape
Reconstructed(chunks, mask, mini) ==
  [i \in 1..Len(chunks) |-> IF mask[i] = 1 THEN chunks[i] ELSE Void(chunks[i], mini)]

\* np.concatenate(reconstructed_S, axis) of the dropout
DropoutConcat(k, pieces) ==
  IF k \in TimeKinds THEN ConcatCols(pieces) ELSE ConcatRows(pieces)

\* the dropout once the partition ws is drawn: the mask, the drop count, the
\* indices to drop, the reconstruction and the conversion to float32
DropoutAfterPartition(k, d, ws, mc, Mc) ==
  IF mc > Mc
  THEN {Out("ValueError", NoArr, ws, [i \in 1..Len(ws) |-> 1], None, <<>>)}
  ELSE UNION {
         {LET mask == ValidMask(Len(ws), idx)
              rec == DropoutConcat(k, Reconstructed(Chunks(k, d, ws), mask, ArrMin(d)))
          IN  IF rec.nd = 0
              THEN Out("ValueError", NoArr, ws, mask, n, <<>>)
              ELSE Out("returned", Float32Arr(rec), ws, mask, n, <<>>)
          : idx \in Choice(Len(ws), n)}
         : n \in mc..Mc}

\* a PIL image is its size; an array read back from one has its shape
Image(width, height) == [width |-> width, height |-> height]
\* the values a resampling gives are not modelled: every one is Unmodelled
Unmodelled == None - 1
Resampled(h, w) == Arr(h, w, [i \in 1..h |-> [j \in 1..w |-> Unmodelled]])

\* Image.fromarray(a)
FromArray(a) == Image(a.w, a.h)

\* Image.Image.resize(img, size, filter), size = (width, height)
Resize(img, size) == Image(size[1], size[2])

\* np.array(img)
AsArray(img) == Resampled(img.height, img.width)

\* (int(width * rate), h) and (w, int(width * rate)): the size a chunk is resized to
StretchSize(k, d, width, rate) ==
  IF k \in TimeKinds THEN <<(width * rate) \div 100, d.h>>
  ELSE <<d.w, (width * rate) \div 100>>

\* tmp = Image.fromarray(stretched_S); Image.Image.resize(tmp, (temps, freq), LANCZOS)
FinalResize(stretched_S, temps, freq) == Resize(FromArray(stretched_S), <<temps, freq>>)

\* one chunk of the stretch loop: rate = None passes the chunk through, else
\* the chunk goes through PIL.  An image of no pixels is handled or refused
\* depending on the PIL build (zeroOk); a resize to no pixels is refused.
StretchChunk(k, d, chunk, width, rate, zeroOk) ==
  IF rate = None THEN chunk
  ELSE LET img == FromArray(chunk)
           size == StretchSize(k, d, width, rate)
       IN  IF img.width = 0 \/ img.height = 0
           THEN (IF zeroOk /\ size = <<img.width, img.height>> THEN AsArray(img) ELSE NoArr)
           ELSE IF size[1] < 1 \/ size[2] < 1 THEN NoArr
           ELSE AsArray(Resize(img, size))

\* the stretch once the partition ws is drawn
StretchAfterPartition(k, d, ws) ==
  {LET chunks == Chunks(k, d, ws)
       pieces == [i \in 1..Len(ws) |-> StretchChunk(k, d, chunks[i], ws[i], rates[i], zeroOk)]
       sw == [i \in 1..Len(ws) |->
                IF rates[i] = None THEN None ELSE (ws[i] * rates[i]) \div 100]
       stretched_S == IF k \in TimeKinds THEN ConcatCols(pieces) ELSE ConcatRows(pieces)
   IN  IF (\E i \in 1..Len(ws) : pieces[i].nd = 0) \/ stretched_S.nd = 0
          \/ stretched_S.h = 0 \/ stretched_S.w = 0
       THEN Out("ValueError", NoArr, ws, <<>>, None, sw)
       ELSE Out("returned", AsArray(FinalResize(stretched_S, d.w, d.h)), ws, <<>>, None, sw)
   : rates \in [1..Len(ws) -> Rates \cup {None}], zeroOk \in BOOLEAN}

\* every way one apply_helper call can end, the bounds being lo and hi:
\* np.random.randint refuses low >= high; when 0 is the only width the loop
\* never ends; else the loop ends after one of its runs
Outcomes(k, d, lo, hi, mc, Mc) ==
  IF lo >= hi THEN {Out("ValueError", NoArr, <<>>, <<>>, None, <<>>)}
  ELSE IF lo = 0 /\ hi = 1 THEN {Out("hang", NoArr, <<>>, <<>>, None, <<>>)}
  ELSE UNION {IF k \in DropoutKinds THEN DropoutAfterPartition(k, d, ws, mc, Mc)
              ELSE StretchAfterPartition(k, d, ws)
              : ws \in Runs(AxisLen(k, d), lo, hi)}

\* apply_helper of the instance on the array d
ApplyHelper(k, d) ==
  /\ kind = k
  /\ calls < MaxCalls
  /\ status = "idle"
  /\ LET b == ChunkBounds(k, min_chunk_size, max_chunk_size, d)
     IN  /\ min_chunk_size' = b[1]
         /\ max_chunk_size' = b[2]
         /\ first' = IF calls = 0
                     THEN [h |-> d.h, w |-> d.w, arg_min |-> min_chunk_size,
                           arg_max |-> max_chunk_size, min |-> b[1], max |-> b[2]]
                     ELSE first
         /\ \E o \in Outcomes(k, d, b[1], b[2], min_chunk, max_chunk) :
              /\ status' = o.status
              /\ result' = o.result
              /\ chunk_width' = o.chunk_width
              /\ valid_mask' = o.valid_mask
              /\ nb_chunk_to_drop' = o.nb_chunk_to_drop
              /\ stretched' = o.stretched
  /\ data' = d
  /\ calls' = calls + 1
  /\ UNCHANGED <<kind, min_chunk, max_chunk>>

FractalTimeStretch_apply_helper ==
  \E d \in Inputs("FractalTimeStretch") : ApplyHelper("FractalTimeStretch", d)
FractalFreqStretch_apply_helper ==
  \E d \in Inputs("FractalFreqStretch") : ApplyHelper("FractalFreqStretch", d)
FractalTimeDropout_apply_helper ==
  \E d \in Inputs("FractalTimeDropout") : ApplyHelper("FractalTimeDropout", d)
FractalFrecDropout_apply_helper ==
  \E d \in Inputs("FractalFrecDropout") : ApplyHelper("FractalFrecDropout", d)

\* the same calls in a sequence of calls on arrays of many shapes
TimeStretchCall == \E d \in ShapeInputs : ApplyHelper("FractalTimeStretch", d)
FreqStretchCall == \E d \in ShapeInputs : ApplyHelper("FractalFreqStretch", d)
TimeDropoutCall == \E d \in ShapeInputs : ApplyHelper("FractalTimeDropout", d)
FrecDropoutCall == \E d \in ShapeInputs : ApplyHelper("FractalFrecDropout", d)

\* a constructed instance: the arguments of __init__ stored as given
FractalInit ==
  /\ kind \in Kinds
  /\ min_chunk_size \in SizeOpt
  /\ max_chunk_size \in SizeOpt
  /\ \/ kind \in DropoutKinds /\ min_chunk \in 1..MaxDrop /\ max_chunk \in 1..MaxDrop
     \/ kind \in StretchKinds /\ min_chunk = None /\ max_chunk = None
  /\ calls = 0
  /\ data = NoArr
  /\ status = "idle"
  /\ result = NoArr
  /\ chunk_width = <<>>
  /\ valid_mask = <<>>
  /\ nb_chunk_to_drop = None
  /\ stretched = <<>>
  /\ first = [h |-> 0, w |-> 0, arg_min |-> None, arg_max |-> None,
              min |-> None, max |-> None]

\* the call is over: the caller has the array or the exception, and the
\* locals of the call are gone
Return ==
  /\ status \in {"returned", "ValueError"}
  /\ status' = "idle"
  /\ data' = NoArr
  /\ result' = NoArr
  /\ chunk_width' = <<>>
  /\ valid_mask' = <<>>
  /\ nb_chunk_to_drop' = None
  /\ stretched' = <<>>
  /\ UNCHANGED <<kind, min_chunk_size, max_chunk_size, min_chunk, max_chunk, calls, first>>

(* ----------------------- Augmentation wrapper ------------------------- *)
VARIABLES
  aug_class,   \* the class of the augmentation instance
  ratio,       \* self.ratio, in percent
  x,           \* the argument of the latest call of the instance
  out,         \* what the latest call returned
  aug_status   \* "idle" before a call, "returned" after it

avars == <<aug_class, ratio, x, out, aug_status>>

AugClasses == {"VerticalFlip", "HorizontalFlip"}
\* the ratios 0.0, 0.5 and 1.0
Ratios == {0, 50, 100}

\* np.flipud(data).copy()
VerticalFlip_apply_helper(d) == Arr(d.h, d.w, [i \in 1..d.h |-> d.v[d.h + 1 - i]])

\* np.fliplr(data).copy()
HorizontalFlip_apply_helper(d) ==
  Arr(d.h, d.w, [i \in 1..d.h |-> [j \in 1..d.w |-> d.v[i][d.w + 1 - j]]])

apply_helper(c, d) ==
  IF c = "VerticalFlip" THEN VerticalFlip_apply_helper(d) ELSE HorizontalFlip_apply_helper(d)

\* Augmentation.forward(x)
Augmentation_forward(d) == d

\* instance(x): torch.nn.Module's call runs forward
Augmentation_call ==
  /\ aug_class \in AugClasses
  /\ aug_status = "idle"
  /\ \E d \in SmallArrays :
       /\ x' = d
       /\ out' = Augmentation_forward(d)
  /\ aug_status' = "returned"
  /\ UNCHANGED <<aug_class, ratio>>

\* Augmentation.__init__(ratio), which asserts 0.0 <= ratio <= 1.0
AugmentationInit ==
  /\ aug_class \in AugClasses
  /\ ratio \in Ratios
  /\ x = NoArr
  /\ out = NoArr
  /\ aug_status = "idle"

AugmentationOff ==
  /\ aug_class = "none"
  /\ ratio = 0
  /\ x = NoArr
  /\ out = NoArr
  /\ aug_status = "idle"

(* ------------------------ ComposeAugmentation -------------------------- *)
VARIABLES
  pre_process,        \* self.pre_process
  process,            \* self.process
  post_process,       \* self.post_process
  pre_process_rule,   \* self.pre_process_rule: the augmentations it holds of
  post_process_rule,  \* self.post_process_rule: the augmentations it holds of
  method,             \* self.method
  op,                 \* the latest operation on the instance, "returned" once compose is over
  augmentation_pool,  \* the argument of the compose that just ran
  selected_aug,       \* the augmentation the latest compose selected, or None
  raised,             \* the exception the operation that just ran raised, or "none"
  composed,           \* what the compose that just ran returned: <<before, process, after>>
  before_compose      \* <<pre_process, post_process>> when the compose that just ran began

cvars == <<pre_process, process, post_process, pre_process_rule, post_process_rule,
           method, op, augmentation_pool, selected_aug, raised, composed,
           before_compose>>

Augs == 1..MaxAugs
\* 'pick_one' and a value compose does not know
Methods == {"pick_one", "all"}
Pools == SeqsUpTo(Augs, MaxPool)
\* the pipelines set_process is given
ProcessPools == SeqsUpTo(Augs, 1)
Rules == SUBSET Augs

\* a compose that keeps what the call before it placed
ComposeKeep(pre, post) == <<pre, post>>

\* the lists compose starts from
ComposeReset(pre, post) == <<<<>>, <<>>>>

\* a compose that takes every method for 'pick_one'
IsAnyMethod(m) == TRUE

\* the test of compose: self.method == 'pick_one'
IsPickOne(m) == m = "pick_one"

\* a placement that asks the post-process rule first
PlacePostFirst(aug, pre, post) ==
  IF aug \in post_process_rule THEN <<pre, <<aug>>>>
  ELSE IF aug \in pre_process_rule THEN <<<<aug>>, post>>
  ELSE <<pre, post>>

\* the placement of _compose_pick_one: <<pre_process, post_process>>
Place(aug, pre, post) ==
  IF aug \in pre_process_rule THEN <<<<aug>>, post>>
  ELSE IF aug \in post_process_rule THEN <<pre, <<aug>>>>
  ELSE <<pre, post>>

\* ComposeAugmentation._compose_pick_one on lists already reset to pre, post;
\* random.randint(0, -1) on an empty pool raises ValueError
compose_pick_one(pool, pre, post) ==
  IF Len(pool) = 0
  THEN /\ raised' = "ValueError: empty range"
       /\ selected_aug' = None
       /\ pre_process' = pre
       /\ post_process' = post
       /\ composed' = <<>>
  ELSE \E aug_idx \in 0..(Len(pool) - 1) :
         LET placed == Place(pool[aug_idx + 1], pre, post)
         IN  /\ selected_aug' = pool[aug_idx + 1]
             /\ pre_process' = placed[1]
             /\ post_process' = placed[2]
             /\ composed' = <<placed[1], process, placed[2]>>
             /\ raised' = "none"

\* ComposeAugmentation.compose(augmentation_pool)
compose ==
  /\ method \in Methods
  /\ op # "compose"
  /\ \E pool \in Pools :
       LET reset == ComposeReset(pre_process, post_process)
       IN  /\ augmentation_pool' = pool
           /\ IF IsPickOne(method)
              THEN compose_pick_one(pool, reset[1], reset[2])
              ELSE /\ raised' = "ValueError: Methods"
                   /\ selected_aug' = None
                   /\ pre_process' = reset[1]
                   /\ post_process' = reset[2]
                   /\ composed' = <<>>
  /\ op' = "compose"
  /\ before_compose' = <<pre_process, post_process>>
  /\ UNCHANGED <<process, pre_process_rule, post_process_rule, method>>

\* ComposeAugmentation.set_process(pool)
set_process ==
  /\ method \in Methods
  /\ op # "compose"
  /\ \E pool \in ProcessPools : process' = pool
  /\ op' = "set_process"
  /\ raised' = "none"
  /\ UNCHANGED <<pre_process, post_process, pre_process_rule, post_process_rule,
                 method, augmentation_pool, selected_aug, composed, before_compose>>

\* ComposeAugmentation.set_preprocess_rule(ruler)
set_preprocess_rule ==
  /\ method \in Methods
  /\ op # "compose"
  /\ \E ruler \in Rules : pre_process_rule' = ruler
  /\ op' = "set_preprocess_rule"
  /\ raised' = "none"
  /\ UNCHANGED <<pre_process, process, post_process, post_process_rule,
                 method, augmentation_pool, selected_aug, composed, before_compose>>

\* ComposeAugmentation.set_postprocess_rule(ruler)
set_postprocess_rule ==
  /\ method \in Methods
  /\ op # "compose"
  /\ \E ruler \in Rules : post_process_rule' = ruler
  /\ op' = "set_postprocess_rule"
  /\ raised' = "none"
  /\ UNCHANGED <<pre_process, process, post_process, pre_process_rule,
                 method, augmentation_pool, selected_aug, composed, before_compose>>

\* compose is over (it returned or raised): the caller has the instance, the
\* argument and the result of the call are no longer looked at
compose_return ==
  /\ op = "compose"
  /\ op' = "returned"
  /\ augmentation_pool' = <<>>
  /\ composed' = <<>>
  /\ before_compose' = <<<<>>, <<>>>>
  /\ raised' = "none"
  /\ UNCHANGED <<pre_process, process, post_process, pre_process_rule,
                 post_process_rule, method, selected_aug>>

\* ComposeAugmentation.__init__(pre_process_rule, post_process_rule, method)
ComposeInit ==
  /\ pre_process = <<>>
  /\ process = <<>>
  /\ post_process = <<>>
  /\ pre_process_rule \in Rules
  /\ post_process_rule \in Rules
  /\ method \in Methods
  /\ op = "__init__"
  /\ augmentation_pool = <<>>
  /\ selected_aug = None
  /\ raised = "none"
  /\ composed = <<>>
  /\ before_compose = <<<<>>, <<>>>>

ComposeOff ==
  /\ pre_process = <<>>
  /\ process = <<>>
  /\ post_process = <<>>
  /\ pre_process_rule = {}
  /\ post_process_rule = {}
  /\ method = "none"
  /\ op = "none"
  /\ augmentation_pool = <<>>
  /\ selected_aug = None
  /\ raised = "none"
  /\ composed = <<>>
  /\ before_compose = <<<<>>, <<>>>>

(* ----------------------------- DropStripes ----------------------------- *)
VARIABLES
  dim,            \* self.dim
  drop_width,     \* self.drop_width
  stripes_num,    \* self.stripes_num
  training,       \* self.training
  input,          \* the tensor given to forward, which writes into it
  input_before,   \* that tensor as it was when forward was called
  ds_status       \* "idle", or how forward ended

dvars == <<dim, drop_width, stripes_num, training, input, input_before, ds_status>>

\* a 3-D tensor is a sequence of 2-D slices
TensorShapes == {<<1, 2, 2>>, <<2, 1, 2>>, <<2, 2, 1>>}
Tensors == UNION {[1..s[1] -> {a.v : a \in ArraysOf(s[2], s[3], Vals)}] : s \in TensorShapes}

\* input.shape[self.dim]
TotalWidth(t, dm) == IF dm = 1 THEN Len(t[1]) ELSE Len(t[1][1])

\* e[bgn: bgn + distance, :] = 0 for dim 1, e[:, bgn: bgn + distance] = 0 for dim 2
ZeroStripe(e, dm, bgn, distance) ==
  [i \in 1..Len(e) |-> [j \in 1..Len(e[i]) |->
     LET p == IF dm = 1 THEN i ELSE j
         n == IF dm = 1 THEN Len(e) ELSE Len(e[i])
     IN  IF SliceIndex(bgn, n) < p /\ p <= SliceIndex(bgn + distance, n) THEN 0 ELSE e[i][j]]]

\* a loop that runs once more
StripeRoundsPlusOne(num) == num + 1

\* the number of rounds of the loop of transform_slice: range(self.stripes_num)
StripeRounds(num) == num

\* DropStripes.transform_slice(e, total_width) with k rounds left: every
\* <<status, e>> it can end in; torch.randint refuses high <= low
RECURSIVE transform_slice(_, _, _, _, _)
transform_slice(e, total_width, dm, dw, k) ==
  IF k = 0 THEN {<<"ok", e>>}
  ELSE IF dw <= 0 THEN {<<"RuntimeError", e>>}
  ELSE UNION {
         IF total_width - distance <= 0 THEN {<<"RuntimeError", e>>}
         ELSE UNION {transform_slice(ZeroStripe(e, dm, bgn, distance), total_width, dm, dw, k - 1)
                     : bgn \in 0..(total_width - distance - 1)}
         : distance \in 0..(dw - 1)}

\* the loop of forward over the batch from item n on: every <<status, tensor>>
RECURSIVE forward_batch(_, _, _, _, _)
forward_batch(t, n, dm, dw, num) ==
  IF n > Len(t) THEN {<<"returned", t>>}
  ELSE UNION {
         IF r[1] = "RuntimeError" THEN {<<"RuntimeError", [t EXCEPT ![n] = r[2]]>>}
         ELSE forward_batch([t EXCEPT ![n] = r[2]], n + 1, dm, dw, num)
         : r \in transform_slice(t[n], TotalWidth(t, dm), dm, dw, StripeRounds(num))}

\* DropStripes.forward(input)
DropStripes_forward ==
  /\ dim \in {1, 2}
  /\ ds_status = "idle"
  /\ \E t \in Tensors :
       /\ input_before' = t
       /\ IF training = FALSE
          THEN input' = t /\ ds_status' = "returned"
          ELSE \E r \in forward_batch(t, 1, dim, drop_width, stripes_num) :
                 input' = r[2] /\ ds_status' = r[1]
  /\ UNCHANGED <<dim, drop_width, stripes_num, training>>

\* DropStripes.__init__(dim, drop_width, stripes_num), which asserts dim in [1, 2]
DropStripesInit ==
  /\ dim \in {1, 2}
  /\ drop_width \in 0..MaxDropWidth
  /\ stripes_num \in 0..MaxStripes
  /\ training \in BOOLEAN
  /\ input = <<>>
  /\ input_before = <<>>
  /\ ds_status = "idle"

DropStripesOff ==
  /\ dim = 0
  /\ drop_width = 0
  /\ stripes_num = 0
  /\ training = FALSE
  /\ input = <<>>
  /\ input_before = <<>>
  /\ ds_status = "idle"

(* ------------------- FractalDropout, FractalStretch -------------------- *)
VARIABLES
  comp_class,     \* the class of the two-axis transform
  ctor,           \* the arguments its __init__ is called with
  module_guard,   \* whether nn.Module refuses a sub-module assigned before
                  \* Module.__init__() has run, as torch's does
  comp_ratio,     \* self.ratio, None while unassigned
  freq_func,      \* self.ffd_func / self.ffs_func, NoFunc while unassigned
  time_func,      \* self.ftd_func / self.fts_func, NoFunc while unassigned
  comp_data,      \* the argument of apply_helper
  comp_result,    \* what apply_helper returned
  comp_status     \* "new", "constructed", "AttributeError", "returned"

pvars == <<comp_class, ctor, module_guard, comp_ratio, freq_func, time_func,
           comp_data, comp_result, comp_status>>

CompositeClasses == {"FractalDropout", "FractalStretch"}

\* the chunk-size arguments the two-axis transforms are constructed with
CompSizeOpt == {None} \cup 1..MaxDrop

\* an attribute no sub-transform was assigned to
NoFunc == [kind |-> "none", min_chunk_size |-> None, max_chunk_size |-> None,
           min_chunk |-> None, max_chunk |-> None]

\* FractalFrecDropout(1.0, freq_min_chunk_size, freq_max_chunk_size,
\*                    freq_min_chunk, freq_max_chunk, freq_void) and
\* FractalFreqStretch(ratio, freq_intra_ratio, freq_rate, freq_min_chunk_size,
\*                    freq_max_chunk_size)
FreqFunc(c, a) ==
  [kind |-> IF c = "FractalDropout" THEN "FractalFrecDropout" ELSE "FractalFreqStretch",
   min_chunk_size |-> a.freq_min_chunk_size, max_chunk_size |-> a.freq_max_chunk_size,
   min_chunk |-> a.freq_min_chunk, max_chunk |-> a.freq_max_chunk]

\* FractalTimeDropout(1.0, time_min_chunk_size, time_max_chunk_size,
\*                    time_min_chunk, time_max_chunk, time_void) and
\* FractalTimeStretch(ratio, time_intra_ratio, time_rate, time_min_chunk_size,
\*                    time_max_chunk_size)
TimeFunc(c, a) ==
  [kind |-> IF c = "FractalDropout" THEN "FractalTimeDropout" ELSE "FractalTimeStretch",
   min_chunk_size |-> a.time_min_chunk_size, max_chunk_size |-> a.time_max_chunk_size,
   min_chunk |-> a.time_min_chunk, max_chunk |-> a.time_max_chunk]

\* nn.Module.__call__ of a sub-transform runs its forward, which is
\* Augmentation.forward: apply_helper of the sub-transform is not called
Module_call(func, d) == Augmentation_forward(d)

\* FractalDropout.apply_helper: self.ftd_func(self.ffd_func(data)), and
\* FractalStretch.apply_helper: self.fts_func(self.ffs_func(data))
Composite_apply_helper(d) == Module_call(time_func, Module_call(freq_func, d))

\* FractalDropout.__init__: self.ratio, then self.ftd_func, then self.ffd_func;
\* super().__init__() is never called, so the first sub-module assignment
\* raises AttributeError under nn.Module
FractalDropout_init ==
  /\ comp_class = "FractalDropout"
  /\ comp_status = "new"
  /\ comp_ratio' = ctor.ratio
  /\ IF module_guard
     THEN /\ comp_status' = "AttributeError"
          /\ UNCHANGED <<freq_func, time_func>>
     ELSE /\ time_func' = TimeFunc(comp_class, ctor)
          /\ freq_func' = FreqFunc(comp_class, ctor)
          /\ comp_status' = "constructed"
  /\ UNCHANGED <<comp_class, ctor, module_guard, comp_data, comp_result>>

\* FractalStretch.__init__: self.fts_func, then self.ffs_func; super().__init__()
\* is never called and self.ratio is never assigned
FractalStretch_init ==
  /\ comp_class = "FractalStretch"
  /\ comp_status = "new"
  /\ IF module_guard
     THEN /\ comp_status' = "AttributeError"
          /\ UNCHANGED <<freq_func, time_func>>
     ELSE /\ time_func' = TimeFunc(comp_class, ctor)
          /\ freq_func' = FreqFunc(comp_class, ctor)
          /\ comp_status' = "constructed"
  /\ UNCHANGED <<comp_class, ctor, module_guard, comp_ratio, comp_data, comp_result>>

\* the arrays apply_helper of a two-axis transform is studied on
CompositeInputs(c) ==
  IF c = "FractalDropout" THEN Inputs("FractalTimeDropout") ELSE Inputs("FractalTimeStretch")

\* apply_helper of the constructed two-axis transform c on any array
CompositeCall(c) ==
  /\ comp_class = c
  /\ comp_status = "constructed"
  /\ \E d \in CompositeInputs(c) :
       /\ comp_data' = d
       /\ comp_result' = Composite_apply_helper(d)
  /\ comp_status' = "returned"
  /\ UNCHANGED <<comp_class, ctor, module_guard, comp_ratio, freq_func, time_func>>

FractalDropout_apply_helper == CompositeCall("FractalDropout")
FractalStretch_apply_helper == CompositeCall("FractalStretch")

\* the arguments of __init__
CtorArgs(c) ==
  [ratio : Ratios,
   freq_min_chunk_size : CompSizeOpt, freq_max_chunk_size : CompSizeOpt,
   time_min_chunk_size : CompSizeOpt, time_max_chunk_size : CompSizeOpt,
   freq_min_chunk : IF c = "FractalDropout" THEN 1..MaxDrop ELSE {None},
   freq_max_chunk : IF c = "FractalDropout" THEN 1..MaxDrop ELSE {None},
   time_min_chunk : IF c = "FractalDropout" THEN 1..MaxDrop ELSE {None},
   time_max_chunk : IF c = "FractalDropout" THEN 1..MaxDrop ELSE {None}]

\* a two-axis transform about to be constructed
CompositeInit ==
  /\ comp_class \in CompositeClasses
  /\ ctor \in CtorArgs(comp_class)
  /\ module_guard \in BOOLEAN
  /\ comp_ratio = None
  /\ freq_func = NoFunc
  /\ time_func = NoFunc
  /\ comp_data = NoArr
  /\ comp_result = NoArr
  /\ comp_status = "new"

CompositeOff ==
  /\ comp_class = "none"
  /\ ctor = [ratio |-> 0]
  /\ module_guard = TRUE
  /\ comp_ratio = None
  /\ freq_func = NoFunc
  /\ time_func = NoFunc
  /\ comp_data = NoArr
  /\ comp_result = NoArr
  /\ comp_status = "new"

(* --------------------------- specifications ---------------------------- *)
FractalOff ==
  /\ kind = "none"
  /\ min_chunk_size = None
  /\ max_chunk_size = None
  /\ min_chunk = None
  /\ max_chunk = None
  /\ calls = 0
  /\ data = NoArr
  /\ status = "idle"
  /\ result = NoArr
  /\ chunk_width = <<>>
  /\ valid_mask = <<>>
  /\ nb_chunk_to_drop = None
  /\ stretched = <<>>
  /\ first = [h |-> 0, w |-> 0, arg_min |-> None, arg_max |-> None,
              min |-> None, max |-> None]

vars == <<fvars, avars, cvars, dvars, pvars>>

\* one apply_helper call on a fractal transform in any configuration
InitFractal == FractalInit /\ AugmentationOff /\ ComposeOff /\ DropStripesOff /\ CompositeOff
NextFractal ==
  \/ FractalTimeStretch_apply_helper /\ UNCHANGED <<avars, cvars, dvars, pvars>>
  \/ FractalFreqStretch_apply_helper /\ UNCHANGED <<avars, cvars, dvars, pvars>>
  \/ FractalTimeDropout_apply_helper /\ UNCHANGED <<avars, cvars, dvars, pvars>>
  \/ FractalFrecDropout_apply_helper /\ UNCHANGED <<avars, cvars, dvars, pvars>>
SpecFractal == InitFractal /\ [][NextFractal]_vars

\* sequences of apply_helper calls on one fractal transform
NextFractalCalls ==
  \/ TimeStretchCall /\ UNCHANGED <<avars, cvars, dvars, pvars>>
  \/ FreqStretchCall /\ UNCHANGED <<avars, cvars, dvars, pvars>>
  \/ TimeDropoutCall /\ UNCHANGED <<avars, cvars, dvars, pvars>>
  \/ FrecDropoutCall /\ UNCHANGED <<avars, cvars, dvars, pvars>>
  \/ Return /\ UNCHANGED <<avars, cvars, dvars, pvars>>
SpecFractalCalls == InitFractal /\ [][NextFractalCalls]_vars

\* a call of an Augmentation instance
InitAugmentation == AugmentationInit /\ FractalOff /\ ComposeOff /\ DropStripesOff /\ CompositeOff
NextAugmentation == Augmentation_call /\ UNCHANGED <<fvars, cvars, dvars, pvars>>
SpecAugmentation == InitAugmentation /\ [][NextAugmentation]_vars

\* the operations of one ComposeAugmentation
InitCompose == ComposeInit /\ FractalOff /\ AugmentationOff /\ DropStripesOff /\ CompositeOff
NextCompose ==
  \/ compose /\ UNCHANGED <<fvars, avars, dvars, pvars>>
  \/ compose_return /\ UNCHANGED <<fvars, avars, dvars, pvars>>
  \/ set_process /\ UNCHANGED <<fvars, avars, dvars, pvars>>
  \/ set_preprocess_rule /\ UNCHANGED <<fvars, avars, dvars, pvars>>
  \/ set_postprocess_rule /\ UNCHANGED <<fvars, avars, dvars, pvars>>
SpecCompose == InitCompose /\ [][NextCompose]_vars

\* a forward call of one DropStripes
InitDropStripes == DropStripesInit /\ FractalOff /\ AugmentationOff /\ ComposeOff /\ CompositeOff
NextDropStripes == DropStripes_forward /\ UNCHANGED <<fvars, avars, cvars, pvars>>
SpecDropStripes == InitDropStripes /\ [][NextDropStripes]_vars

\* the construction of a two-axis transform and one apply_helper call on it
InitComposite ==
  CompositeInit /\ FractalOff /\ AugmentationOff /\ ComposeOff /\ DropStripesOff
NextComposite ==
  \/ FractalDropout_init /\ UNCHANGED <<fvars, avars, cvars, dvars>>
  \/ FractalStretch_init /\ UNCHANGED <<fvars, avars, cvars, dvars>>
  \/ FractalDropout_apply_helper /\ UNCHANGED <<fvars, avars, cvars, dvars>>
  \/ FractalStretch_apply_helper /\ UNCHANGED <<fvars, avars, cvars, dvars>>
SpecComposite == InitComposite /\ [][NextComposite]_vars

\* the library: a run exercises one of its objects
Init == InitFractal \/ InitAugmentation \/ InitCompose \/ InitDropStripes \/ InitComposite
Next ==
  \/ NextFractalCalls \/ NextFractal \/ NextAugmentation \/ NextCompose
  \/ NextDropStripes \/ NextComposite
Spec == Init /\ [][Next]_vars

(* ------------------------------ claims -------------------------------- *)
\* the chunk (1-based) that holds position p (1-based) of the partitioned axis
ChunkAt(p) ==
  CHOOSE c \in 1..Len(chunk_width) :
    /\ SumSeq(SubSeq(chunk_width, 1, c - 1)) < p
    /\ p <= SumSeq(SubSeq(chunk_width, 1, c))

\* whether element (i, j) of the latest dropout lies in a dropped chunk
InDropped(i, j) == valid_mask[ChunkAt(IF kind \in TimeKinds THEN j ELSE i)] = 0

DroppedChunks == {c \in 1..Len(valid_mask) : valid_mask[c] = 0}

SameShape == result.nd = 2 /\ result.h = data.h /\ result.w = data.w

\* C1: an apply_helper call of a fractal stretch or dropout that returns,
\* returns an array of exactly the shape (H, W) of its argument, whatever
\* chunk widths were drawn, a last chunk reaching past the end included.
C1_ShapePreserved == status = "returned" => SameShape

\* a dropout returned on a 3-wide array cut into chunks of widths 2 and 2,
\* the second clipped to one column
C1_Witness ==
  /\ status = "returned"
  /\ kind = "FractalTimeDropout"
  /\ chunk_width = <<2, 2>>
  /\ data.w = 3

\* C2: a dropout draws k in [min_chunk, max_chunk] and fills exactly k chunks
\* of the partition (all of them when k exceeds their number).
C2_ExactlyKDropped ==
  (status = "returned" /\ kind \in DropoutKinds) =>
    /\ nb_chunk_to_drop >= min_chunk
    /\ nb_chunk_to_drop <= max_chunk
    /\ Cardinality(DroppedChunks) = Min(nb_chunk_to_drop, Len(chunk_width))

\* C3 as stated: the output of a dropout equals the input at every position
\* of a kept chunk and the input's minimum at every position of a dropped
\* chunk, so both have the same minimum.
C3_Original ==
  (status = "returned" /\ kind \in DropoutKinds) =>
    /\ SameShape
    /\ \A i \in 1..data.h, j \in 1..data.w :
         result.v[i][j] = IF InDropped(i, j) THEN ArrMin(data) ELSE data.v[i][j]
    /\ ArrMin(result) = ArrMin(data)

\* C3 amended: the output of a dropout is the float32 conversion of the input
\* at every position of a kept chunk and the float32 conversion of the
\* input's minimum at every position of a dropped chunk, so its minimum is
\* the float32 conversion of the input's; with min_chunk = max_chunk = 1
\* exactly one chunk, a contiguous band of the axis, is filled.
C3_FrameUpToFloat32 ==
  (status = "returned" /\ kind \in DropoutKinds) =>
    /\ SameShape
    /\ \A i \in 1..data.h, j \in 1..data.w :
         result.v[i][j] =
           IF InDropped(i, j) THEN Float32(ArrMin(data)) ELSE Float32(data.v[i][j])
    /\ ArrMin(result) = Float32(ArrMin(data))
    /\ (min_chunk = 1 /\ max_chunk = 1) => Cardinality(DroppedChunks) = 1

\* a dropout with min_chunk = max_chunk = 1 returned with a kept chunk whose
\* values single precision does not hold and a filled chunk of another value
C3_Witness ==
  /\ status = "returned"
  /\ kind \in DropoutKinds
  /\ min_chunk = 1 /\ max_chunk = 1
  /\ \E i \in 1..data.h, j \in 1..data.w :
       ~InDropped(i, j) /\ Float32(data.v[i][j]) # data.v[i][j]
  /\ \E i \in 1..data.h, j \in 1..data.w :
       InDropped(i, j) /\ result.v[i][j] # Float32(data.v[i][j])

\* the bounds the claim calls degenerate for an axis of length L
Degenerate(lo, hi, L) == lo >= L \/ hi <= lo \/ hi <= 0

\* C4: a call whose chunk-size bounds are degenerate for the axis ends in an
\* error: it does not return an array and its loop does not run forever.
C4_DegenerateRejected ==
  (status # "idle" /\ Degenerate(min_chunk_size, max_chunk_size, AxisLen(kind, data)))
    => status = "ValueError"

\* the bounds a first call must leave: the constructor's, a bound left unset
\* taken from the shape of the first array (10% of the width for both bounds
\* of FractalTimeStretch, 10% of the height for both of FractalFrecDropout,
\* 1% and 10% of the height for the other two), in order for a dropout
FirstCallBounds ==
  LET tenth == IF kind = "FractalTimeStretch" THEN first.w \div 10 ELSE first.h \div 10
      low == CASE kind = "FractalTimeStretch" -> tenth
               [] kind = "FractalFrecDropout" -> tenth
               [] OTHER -> first.h \div 100
      lo == IF first.arg_min = None THEN low ELSE first.arg_min
      hi == IF first.arg_max = None THEN tenth ELSE first.arg_max
  IN  IF kind \in DropoutKinds THEN <<Min(lo, hi), Max(lo, hi)>> ELSE <<lo, hi>>

\* C10: the chunk-size bounds are fixed by the first apply_helper call, a
\* bound left unset then being derived from the first array's shape, and after
\* every later call they are still the values the first call left.
C10_BoundsFixedByFirstCall ==
  calls >= 1 =>
    /\ <<min_chunk_size, max_chunk_size>> = <<first.min, first.max>>
    /\ <<first.min, first.max>> = FirstCallBounds

\* a second call returned on an array whose shape gives other defaults than
\* the first, with the bounds the first call derived
C10_Witness ==
  /\ calls = 2
  /\ status = "returned"
  /\ first.arg_min = None /\ first.arg_max = None
  /\ DefaultMaxSize(kind, data) # max_chunk_size
  /\ max_chunk_size = first.max

\* C5: an augmentation called with ratio = 0 returns its argument, and called
\* with ratio = 1 returns apply_helper of its argument.
C5_RatioGate ==
  aug_status = "returned" =>
    /\ ratio = 0 => out = x
    /\ ratio = 100 => out = apply_helper(aug_class, x)

C7_MethodCheckedAtCall ==
  /\ op = "__init__" => raised = "none"
  /\ raised = "ValueError: Methods" => (op = "compose" /\ method # "pick_one")
  /\ (op = "compose" /\ method # "pick_one") =>
       /\ raised = "ValueError: Methods"
       /\ selected_aug = None
       /\ pre_process = <<>>
       /\ post_process = <<>>
       /\ composed = <<>>

\* compose ran on a non-empty pool with an unsupported method
C7_Witness ==
  /\ op = "compose"
  /\ method = "all"
  /\ Len(augmentation_pool) >= 1
  /\ raised = "ValueError: Methods"

\* C8: DropStripes.forward, when the module is not in training mode or
\* stripes_num = 0, returns its input with every element as it was and raises
\* nothing, whatever drop_width is.
C8_NoOp ==
  (ds_status # "idle" /\ (training = FALSE \/ stripes_num = 0)) =>
    /\ ds_status = "returned"
    /\ input = input_before

\* forward returned in training mode with stripes_num = 0 and a drop_width
\* torch.randint would refuse
C8_Witness ==
  /\ ds_status = "returned"
  /\ training = TRUE
  /\ stripes_num = 0
  /\ drop_width = 0

\* the augmentations that are active
Active == pre_process \o post_process

\* C9: after any sequence of compose calls at most one augmentation is
\* active, it is the one the latest call selected, nothing an earlier call
\* placed is left, and compose leaves `process` as it was.
C9_AtMostOneActive ==
  /\ [](/\ Len(pre_process) + Len(post_process) <= 1
        /\ \A i \in 1..Len(Active) : Active[i] = selected_aug)
  /\ [][op' = "compose" => process' = process]_vars

\* compose placed an augmentation after `process` when the call before it
\* had placed one before `process`
C9_Witness ==
  /\ op = "compose"
  /\ Len(before_compose[1]) = 1
  /\ pre_process = <<>>
  /\ Len(post_process) = 1
  /\ process # <<>>

\* how a call of the sub-transform f on d can end: <<status, result>>
SubOutcomes(f, d) ==
  LET b == ChunkBounds(f.kind, f.min_chunk_size, f.max_chunk_size, d)
  IN  {<<o.status, o.result>> :
         o \in Outcomes(f.kind, d, b[1], b[2], f.min_chunk, f.max_chunk)}

\* the frequency-axis transform ff on d, then the time-axis transform tf on
\* what it returned; a call that does not return ends the whole
FreqThenTime(ff, tf, d) ==
  UNION {IF fo[1] = "returned" THEN SubOutcomes(tf, fo[2]) ELSE {<<fo[1], NoArr>>}
         : fo \in SubOutcomes(ff, d)}

\* what is compared of an outcome: the values a stretch gives are not
\* modelled, so of a stretch only the shape is
Seen(c, o) ==
  IF c = "FractalStretch" THEN <<o[1], o[2].h, o[2].w>> ELSE o

\* C11: a two-axis transform is constructed without an error, and its
\* apply_helper ends as the time-axis transform ends on what the
\* frequency-axis transform returned for the same array: FractalDropout gives
\* a time dropout of a frequency dropout of data, FractalStretch a time
\* stretch of a frequency stretch of data.
C11_FreqThenTime ==
  /\ comp_status # "AttributeError"
  /\ comp_status = "returned" =>
       Seen(comp_class, <<comp_status, comp_result>>) \in
         {Seen(comp_class, o) :
            o \in FreqThenTime(FreqFunc(comp_class, ctor), TimeFunc(comp_class, ctor),
                               comp_data)}

====
